---- MODULE Spec2Model ----
(***************************************************************************)
(* ssample: streaming reservoir sample of stdin lines (src/ssample.go).    *)
(*                                                                         *)
(* Goroutines: main, reader (feeds Collector.AddLine), gogently (interrupt *)
(* handler) and the HTTP handlers (ssampleServer.ServeHTTP).  The          *)
(* Collector's fields are guarded by the mutex c.l; every statement that   *)
(* runs between Lock and Unlock is a step of its own, so that what the     *)
(* mutex excludes is excluded by the mutex and not by the granularity of   *)
(* the model.  Once main returns the process exits and nothing runs.       *)
(***************************************************************************)
EXTENDS Integers, Sequences, FiniteSets, TLC

\* ---------------------------------------------------------------- bounds

\* LinesToKeep (flag -l) ranges over 1..MaxKeep.
MaxKeep == 2
\* At most MaxStream lines are read from stdin before it is exhausted.
MaxStream == 3
\* rng.Float64() is drawn from {0/RDen, ..., (RDen-1)/RDen}.
RDen == 4

\* The lines stdin can deliver.  The program never looks into a line, so the
\* lines are taken distinct: every mix-up of two records is then visible.
\* stdin may end (or fail) after any prefix of them.
Letters == <<"a", "b", "c", "d", "e", "f">>
Inputs == {[i \in 1..MaxStream |-> Letters[i]]}

\* ------------------------------------------------------------- processes

Handlers == {"h1", "h2"}
Snapshotters == Handlers \cup {"main"}
Procs == {"main", "reader", "gogently"} \cup Handlers
NoOne == "none"

VARIABLES
    LinesToKeep,   \* Collector.LinesToKeep
    lines,         \* Collector.lines
    lineNumbers,   \* Collector.lineNumbers
    linesSeen,     \* Collector.linesSeen
    rng,           \* Collector.rng # nil
    l,             \* Collector.l: the goroutine holding it, or NoOne
    shouldquit,    \* the global shouldquit
    globalm,       \* the global mutex globalm: its holder, or NoOne
    gcond,         \* gcond's notify list: the goroutines blocked in Wait
    sigs,          \* number of signals buffered in the channel sigs (cap 1)
    haddr,         \* flag -http given (haddr # "")
    pc,            \* each goroutine's position
    stdin,         \* the lines stdin holds
    nread,         \* how many of them in.Scan() has returned so far
    rd,            \* reader's locals: line, and AddLine's rf, keep, evict
    snap,          \* per snapshotter: the sorter s, out.LinesSeen, and the
                   \* value of linesSeen when s was copied
    stdout,        \* the final emissions printed by main, in order
    released,      \* number of times a Broadcast released a waiting goroutine
    req,           \* per handler: the form values t and p of its requests,
                   \* and ServeHTTP's locals textmode and plainmode
    w,             \* per handler: what ServeHTTP wrote to its ResponseWriter
    atStop         \* history: linesSeen and nread when shouldquit was stored

vars == <<LinesToKeep, lines, lineNumbers, linesSeen, rng, l, shouldquit,
          globalm, gcond, sigs, haddr, pc, stdin, nread, rd, snap, stdout, released,
          req, w, atStop>>

\* The lines in.Scan() has returned so far, in order.
stream == SubSeq(stdin, 1, nread)

NoLocals == [line |-> "", rf |-> 0, keep |-> FALSE, evict |-> 0]
NoSnap == [lines |-> << >>, lineNumbers |-> << >>, seen |-> 0, copiedAt |-> 0]

Min(a, b) == IF a < b THEN a ELSE b

\* A form value is the sequence of its characters.
NoRequest == [t |-> << >>, p |-> << >>, textmode |-> FALSE, plainmode |-> FALSE]
NoResponse == [status |-> 0, contentType |-> "", body |-> << >>]
NoStop == [seen |-> -1, nread |-> -1]

\* ------------------------------------------------------------------ Init

Init ==
    /\ LinesToKeep \in 1..MaxKeep
    /\ lines = << >>
    /\ lineNumbers = << >>
    /\ linesSeen = 0
    /\ rng = FALSE
    /\ l = NoOne
    /\ shouldquit = 0
    /\ globalm = NoOne
    /\ gcond = {}
    /\ sigs = 0
    /\ haddr \in BOOLEAN
    /\ pc = [p \in Procs |-> IF p = "main" THEN "go_gogently" ELSE "notstarted"]
    /\ stdin \in Inputs
    /\ nread = 0
    /\ rd = NoLocals
    /\ snap = [p \in Snapshotters |-> NoSnap]
    /\ stdout = << >>
    /\ released = 0
    /\ req = [h \in Handlers |-> NoRequest]
    /\ w = [h \in Handlers |-> NoResponse]
    /\ atStop = NoStop

\* The process runs until main returns.
Running == pc["main"] # "done"

Goto(p, where) == pc' = [pc EXCEPT ![p] = where]

\* ------------------------------------------------------- sync primitives

\* A Lock that excludes nobody (a critical section left unguarded).
MutexFree_Unguarded(m) == TRUE

\* sync.Mutex.Lock proceeds only when nobody holds the mutex.
MutexFree(m) == m = NoOne

\* sync.Cond.Broadcast: every goroutine on the notify list is released and
\* goes on to re-acquire the Cond's lock; with nobody waiting it does nothing.
Broadcast ==
    /\ gcond' = {}
    /\ released' = released + Cardinality(gcond)

WakeAll(q) == IF q \in gcond /\ pc[q] = "Wait_blocked" THEN "Wait_relock" ELSE pc[q]

\* ------------------------------------------------------- Collector.AddLine

\* A comparison that lets the store grow one entry past its capacity.
HasRoom_OffByOne(n, K) == n <= K

\* Line 40: len(c.lines) < c.LinesToKeep, the growth phase.
HasRoom(n, K) == n < K

\* Line 45: keep := rf < float64(LinesToKeep-1) / float64(linesSeen), with
\* rf = r / RDen.  For linesSeen = 0 the quotient is -Inf, NaN or +Inf and
\* the comparison is true only against +Inf.
KeepDecision(r, K, seen) ==
    IF seen = 0 THEN K - 1 > 0 ELSE r * seen < (K - 1) * RDen

\* Lines 35-39: c.l.Lock(), and the rng is created on the first call.
AddLine_Lock ==
    /\ pc["reader"] = "AddLine_Lock"
    /\ Running
    /\ MutexFree(l)
    /\ l' = "reader"
    /\ rng' = TRUE
    /\ Goto("reader", "AddLine_40")
    /\ UNCHANGED <<LinesToKeep, lines, lineNumbers, linesSeen, shouldquit,
                   globalm, gcond, sigs, haddr, stdin, nread, rd, snap, stdout, released,
                   req, w, atStop>>

\* Lines 40, 41 and 44: the branch; append the line, or draw rf.
\* (A local that is not read again is put back to its zero value.)
AddLine_40 ==
    /\ pc["reader"] = "AddLine_40"
    /\ Running
    /\ IF HasRoom(Len(lines), LinesToKeep)
       THEN /\ lines' = Append(lines, rd.line)
            /\ rd' = NoLocals
            /\ Goto("reader", "AddLine_42")
       ELSE /\ \E r \in 0..(RDen - 1) : rd' = [rd EXCEPT !.rf = r]
            /\ lines' = lines
            /\ Goto("reader", "AddLine_45")
    /\ UNCHANGED <<LinesToKeep, lineNumbers, linesSeen, rng, l, shouldquit,
                   globalm, gcond, sigs, haddr, stdin, nread, snap, stdout, released,
                   req, w, atStop>>

\* Line numbers counted from 1: the count is taken after the increment.
AddLine_42_OneBased ==
    /\ pc["reader"] = "AddLine_42"
    /\ Running
    /\ lineNumbers' = Append(lineNumbers, linesSeen + 1)
    /\ Goto("reader", "AddLine_53")
    /\ UNCHANGED <<LinesToKeep, lines, linesSeen, rng, l, shouldquit,
                   globalm, gcond, sigs, haddr, stdin, nread, rd, snap, stdout, released,
                   req, w, atStop>>

\* Line 42: c.lineNumbers = append(c.lineNumbers, c.linesSeen).
AddLine_42 ==
    /\ pc["reader"] = "AddLine_42"
    /\ Running
    /\ lineNumbers' = Append(lineNumbers, linesSeen)
    /\ Goto("reader", "AddLine_53")
    /\ UNCHANGED <<LinesToKeep, lines, linesSeen, rng, l, shouldquit,
                   globalm, gcond, sigs, haddr, stdin, nread, rd, snap, stdout, released,
                   req, w, atStop>>

\* Line 45: the admission decision.
AddLine_45 ==
    /\ pc["reader"] = "AddLine_45"
    /\ Running
    /\ rd' = [rd EXCEPT !.keep = KeepDecision(rd.rf, LinesToKeep, linesSeen),
                         !.rf = 0]
    /\ Goto("reader", "AddLine_46")
    /\ UNCHANGED <<LinesToKeep, lines, lineNumbers, linesSeen, rng, l, shouldquit,
                   globalm, gcond, sigs, haddr, stdin, nread, snap, stdout, released,
                   req, w, atStop>>

\* AddLine_46 with linesSeen++ inside the if: a rejected line is not counted.
AddLine_46_RejectUncounted ==
    /\ pc["reader"] = "AddLine_46"
    /\ Running
    /\ IF rd.keep
       THEN /\ \E e \in 0..(Len(lines) - 1) :
                    rd' = [rd EXCEPT !.evict = e, !.keep = FALSE]
            /\ Goto("reader", "AddLine_48")
       ELSE /\ rd' = NoLocals
            /\ Goto("reader", "AddLine_Unlock")
    /\ UNCHANGED <<LinesToKeep, lines, lineNumbers, linesSeen, rng, l, shouldquit,
                   globalm, gcond, sigs, haddr, stdin, nread, snap, stdout, released,
                   req, w, atStop>>

\* AddLine_46 without the test of keep: a rejected line evicts slot 0.
AddLine_46_RejectEvicts ==
    /\ pc["reader"] = "AddLine_46"
    /\ Running
    /\ IF rd.keep
       THEN \E e \in 0..(Len(lines) - 1) :
                rd' = [rd EXCEPT !.evict = e, !.keep = FALSE]
       ELSE rd' = [rd EXCEPT !.evict = 0]
    /\ Goto("reader", "AddLine_48")
    /\ UNCHANGED <<LinesToKeep, lines, lineNumbers, linesSeen, rng, l, shouldquit,
                   globalm, gcond, sigs, haddr, stdin, nread, snap, stdout, released,
                   req, w, atStop>>

\* Lines 46-47: if keep, evict := c.rng.Intn(len(c.lines)).
AddLine_46 ==
    /\ pc["reader"] = "AddLine_46"
    /\ Running
    /\ IF rd.keep
       THEN /\ \E e \in 0..(Len(lines) - 1) :
                    rd' = [rd EXCEPT !.evict = e, !.keep = FALSE]
            /\ Goto("reader", "AddLine_48")
       ELSE /\ rd' = NoLocals
            /\ Goto("reader", "AddLine_53")
    /\ UNCHANGED <<LinesToKeep, lines, lineNumbers, linesSeen, rng, l, shouldquit,
                   globalm, gcond, sigs, haddr, stdin, nread, snap, stdout, released,
                   req, w, atStop>>

\* AddLine_48 writing the line to slot 0 whatever evict is.
AddLine_48_FirstSlot ==
    /\ pc["reader"] = "AddLine_48"
    /\ Running
    /\ lines' = [lines EXCEPT ![1] = rd.line]
    /\ rd' = [rd EXCEPT !.line = ""]
    /\ Goto("reader", "AddLine_49")
    /\ UNCHANGED <<LinesToKeep, lineNumbers, linesSeen, rng, l, shouldquit,
                   globalm, gcond, sigs, haddr, stdin, nread, snap, stdout, released,
                   req, w, atStop>>

\* Line 48: c.lines[evict] = line.
AddLine_48 ==
    /\ pc["reader"] = "AddLine_48"
    /\ Running
    /\ lines' = [lines EXCEPT ![rd.evict + 1] = rd.line]
    /\ rd' = [rd EXCEPT !.line = ""]
    /\ Goto("reader", "AddLine_49")
    /\ UNCHANGED <<LinesToKeep, lineNumbers, linesSeen, rng, l, shouldquit,
                   globalm, gcond, sigs, haddr, stdin, nread, snap, stdout, released,
                   req, w, atStop>>

\* The replacement forgets the index: the slot keeps the evicted entry's.
AddLine_49_KeepsOldIndex ==
    /\ pc["reader"] = "AddLine_49"
    /\ Running
    /\ lineNumbers' = lineNumbers
    /\ rd' = NoLocals
    /\ Goto("reader", "AddLine_53")
    /\ UNCHANGED <<LinesToKeep, lines, linesSeen, rng, l, shouldquit,
                   globalm, gcond, sigs, haddr, stdin, nread, snap, stdout, released,
                   req, w, atStop>>

\* Line 49: c.lineNumbers[evict] = c.linesSeen.
AddLine_49 ==
    /\ pc["reader"] = "AddLine_49"
    /\ Running
    /\ lineNumbers' = [lineNumbers EXCEPT ![rd.evict + 1] = linesSeen]
    /\ rd' = NoLocals
    /\ Goto("reader", "AddLine_53")
    /\ UNCHANGED <<LinesToKeep, lines, linesSeen, rng, l, shouldquit,
                   globalm, gcond, sigs, haddr, stdin, nread, snap, stdout, released,
                   req, w, atStop>>

\* Line 53: c.linesSeen++.
AddLine_53 ==
    /\ pc["reader"] = "AddLine_53"
    /\ Running
    /\ linesSeen' = linesSeen + 1
    /\ Goto("reader", "AddLine_Unlock")
    /\ UNCHANGED <<LinesToKeep, lines, lineNumbers, rng, l, shouldquit,
                   globalm, gcond, sigs, haddr, stdin, nread, rd, snap, stdout, released,
                   req, w, atStop>>

\* Line 36: the deferred c.l.Unlock(); AddLine returns to reader's loop.
AddLine_Unlock ==
    /\ pc["reader"] = "AddLine_Unlock"
    /\ Running
    /\ l' = NoOne
    /\ rd' = NoLocals
    /\ Goto("reader", "Scan")
    /\ UNCHANGED <<LinesToKeep, lines, lineNumbers, linesSeen, rng, shouldquit,
                   globalm, gcond, sigs, haddr, stdin, nread, snap, stdout, released,
                   req, w, atStop>>

AddLine ==
    \/ AddLine_Lock
    \/ AddLine_40
    \/ AddLine_42
    \/ AddLine_45
    \/ AddLine_46
    \/ AddLine_48
    \/ AddLine_49
    \/ AddLine_53
    \/ AddLine_Unlock

\* ------------------------------------------------------------------ reader

\* reader_Scan with gcond.Broadcast() inside the loop, after every line read.
reader_Scan_BroadcastsEachLine ==
    /\ pc["reader"] = "Scan"
    /\ Running
    /\ \/ /\ nread < Len(stdin)
          /\ nread' = nread + 1
          /\ rd' = [rd EXCEPT !.line = stdin[nread + 1]]
          /\ Broadcast
          /\ pc' = [q \in Procs |-> IF q = "reader" THEN "LoadQuit" ELSE WakeAll(q)]
       \/ /\ UNCHANGED <<nread, rd, gcond, released>>
          /\ Goto("reader", "defer_Broadcast")
    /\ UNCHANGED <<LinesToKeep, lines, lineNumbers, linesSeen, rng, l, shouldquit,
                   globalm, sigs, haddr, stdin, snap, stdout,
                   req, w, atStop>>

\* Line 132: in.Scan() returns the next line of stdin, or false when stdin
\* is exhausted or faulty (then line 147 and the deferred function run).
reader_Scan ==
    /\ pc["reader"] = "Scan"
    /\ Running
    /\ \/ /\ nread < Len(stdin)
          /\ nread' = nread + 1
          /\ rd' = [rd EXCEPT !.line = stdin[nread + 1]]
          /\ Goto("reader", "LoadQuit")
       \/ /\ UNCHANGED <<nread, rd>>
          /\ Goto("reader", "defer_Broadcast")
    /\ UNCHANGED <<LinesToKeep, lines, lineNumbers, linesSeen, rng, l, shouldquit,
                   globalm, gcond, sigs, haddr, stdin, snap, stdout, released,
                   req, w, atStop>>

\* reader_LoadQuit without the return of line 136: the flag is loaded and
\* the loop goes on to AddLine all the same.
reader_LoadQuit_Ignores ==
    /\ pc["reader"] = "LoadQuit"
    /\ Running
    /\ rd' = rd
    /\ Goto("reader", "AddLine_Lock")
    /\ UNCHANGED <<LinesToKeep, lines, lineNumbers, linesSeen, rng, l, shouldquit,
                   globalm, gcond, sigs, haddr, stdin, nread, snap, stdout, released,
                   req, w, atStop>>

\* reader_LoadQuit with the test of line 134 inverted (xs == 0).
reader_LoadQuit_Inverted ==
    /\ pc["reader"] = "LoadQuit"
    /\ Running
    /\ IF shouldquit = 0
       THEN /\ rd' = NoLocals
            /\ Goto("reader", "defer_Broadcast")
       ELSE /\ rd' = rd
            /\ Goto("reader", "AddLine_Lock")
    /\ UNCHANGED <<LinesToKeep, lines, lineNumbers, linesSeen, rng, l, shouldquit,
                   globalm, gcond, sigs, haddr, stdin, nread, snap, stdout, released,
                   req, w, atStop>>

\* Lines 133-145: load shouldquit; return if set, else go on to AddLine(line)
\* (the tee and echo writes of lines 139-144 touch nothing modelled here).
reader_LoadQuit ==
    /\ pc["reader"] = "LoadQuit"
    /\ Running
    /\ IF shouldquit # 0
       THEN /\ rd' = NoLocals
            /\ Goto("reader", "defer_Broadcast")
       ELSE /\ rd' = rd
            /\ Goto("reader", "AddLine_Lock")
    /\ UNCHANGED <<LinesToKeep, lines, lineNumbers, linesSeen, rng, l, shouldquit,
                   globalm, gcond, sigs, haddr, stdin, nread, snap, stdout, released,
                   req, w, atStop>>

\* Lines 122-130: the deferred function ends with gcond.Broadcast().
reader_Broadcast ==
    /\ pc["reader"] = "defer_Broadcast"
    /\ Running
    /\ Broadcast
    /\ pc' = [q \in Procs |-> IF q = "reader" THEN "done" ELSE WakeAll(q)]
    /\ UNCHANGED <<LinesToKeep, lines, lineNumbers, linesSeen, rng, l, shouldquit,
                   globalm, sigs, haddr, stdin, nread, rd, snap, stdout,
                   req, w, atStop>>

reader ==
    \/ reader_Scan
    \/ reader_LoadQuit
    \/ AddLine
    \/ reader_Broadcast

\* ---------------------------------------------------------------- gogently

\* The interrupt arrives: signal.Notify's channel has room for one signal,
\* and a signal that finds it full is dropped.  gogently receives once; a
\* signal that comes after that stays in the channel unread and is left out.
Interrupt ==
    /\ Running
    /\ pc["gogently"] \in {"notstarted", "Recv"}
    /\ sigs = 0
    /\ sigs' = 1
    /\ UNCHANGED <<LinesToKeep, lines, lineNumbers, linesSeen, rng, l, shouldquit,
                   globalm, gcond, haddr, pc, stdin, nread, rd, snap, stdout, released,
                   req, w, atStop>>

\* Line 115: xs := <-c.
gogently_Recv ==
    /\ pc["gogently"] = "Recv"
    /\ Running
    /\ sigs > 0
    /\ sigs' = sigs - 1
    /\ Goto("gogently", "Store")
    /\ UNCHANGED <<LinesToKeep, lines, lineNumbers, linesSeen, rng, l, shouldquit,
                   globalm, gcond, haddr, stdin, nread, rd, snap, stdout, released,
                   req, w, atStop>>

\* Line 117: atomic.StoreUint32(&shouldquit, 1).
gogently_Store ==
    /\ pc["gogently"] = "Store"
    /\ Running
    /\ shouldquit' = 1
    /\ atStop' = [seen |-> linesSeen, nread |-> nread]
    /\ Goto("gogently", "Broadcast")
    /\ UNCHANGED <<LinesToKeep, lines, lineNumbers, linesSeen, rng, l,
                   globalm, gcond, sigs, haddr, stdin, nread, rd, snap, stdout, released,
                   req, w>>

\* Line 118: gcond.Broadcast().
gogently_Broadcast ==
    /\ pc["gogently"] = "Broadcast"
    /\ Running
    /\ Broadcast
    /\ pc' = [q \in Procs |-> IF q = "gogently" THEN "done" ELSE WakeAll(q)]
    /\ UNCHANGED <<LinesToKeep, lines, lineNumbers, linesSeen, rng, l, shouldquit,
                   globalm, sigs, haddr, stdin, nread, rd, snap, stdout,
                   req, w, atStop>>

gogently ==
    \/ gogently_Recv
    \/ gogently_Store
    \/ gogently_Broadcast

\* ------------------------------------------------------------------ sorter

\* sorter.Len (lines 89-91).
SorterLen(s) == Len(s.lines)

\* sorter.Less (lines 93-95), i and j 0-based.
Less(s, i, j) == s.lineNumbers[i + 1] < s.lineNumbers[j + 1]

\* A Swap that moves the line numbers and leaves the lines where they are.
Swap_NumbersOnly(s, i, j) ==
    [s EXCEPT !.lineNumbers = [s.lineNumbers EXCEPT ![i + 1] = s.lineNumbers[j + 1],
                                                    ![j + 1] = s.lineNumbers[i + 1]]]

\* sorter.Swap (lines 97-104): both slices are swapped.
Swap(s, i, j) ==
    [s EXCEPT !.lines = [s.lines EXCEPT ![i + 1] = s.lines[j + 1],
                                        ![j + 1] = s.lines[i + 1]],
              !.lineNumbers = [s.lineNumbers EXCEPT ![i + 1] = s.lineNumbers[j + 1],
                                                    ![j + 1] = s.lineNumbers[i + 1]]]

\* sort.Sort on at most 12 elements is the library's insertion sort:
\*   for i := a+1; i < b; i++ { for j := i; j > a && Less(j, j-1); j-- { Swap(j, j-1) } }
RECURSIVE InsertInner(_, _, _)
InsertInner(s, j, a) ==
    IF j > a /\ Less(s, j, j - 1)
    THEN InsertInner(Swap(s, j, j - 1), j - 1, a)
    ELSE s

RECURSIVE InsertOuter(_, _, _, _)
InsertOuter(s, i, a, b) ==
    IF i < b THEN InsertOuter(InsertInner(s, i, a), i + 1, a, b) ELSE s

SortSorter(s) ==
    IF SorterLen(s) <= 1 THEN s ELSE InsertOuter(s, 1, 0, SorterLen(s))

\* ------------------------------------------------ Collector.LinesAndNumbers

\* Lines 73-74: s := sorter{}; c.l.Lock().
LAN_Lock(p) ==
    /\ pc[p] = "LAN_Lock"
    /\ Running
    /\ MutexFree(l)
    /\ l' = p
    /\ Goto(p, "LAN_75")
    /\ UNCHANGED <<LinesToKeep, lines, lineNumbers, linesSeen, rng, shouldquit,
                   globalm, gcond, sigs, haddr, stdin, nread, rd, snap, stdout, released,
                   req, w, atStop>>

\* Lines 75-76: s.lines is a fresh copy of c.lines.
LAN_75(p) ==
    /\ pc[p] = "LAN_75"
    /\ Running
    /\ snap' = [snap EXCEPT ![p].lines = lines, ![p].copiedAt = linesSeen]
    /\ Goto(p, "LAN_77")
    /\ UNCHANGED <<LinesToKeep, lines, lineNumbers, linesSeen, rng, l, shouldquit,
                   globalm, gcond, sigs, haddr, stdin, nread, rd, stdout, released,
                   req, w, atStop>>

\* Lines 77-78: s.lineNumbers is a fresh copy of c.lineNumbers.
LAN_77(p) ==
    /\ pc[p] = "LAN_77"
    /\ Running
    /\ snap' = [snap EXCEPT ![p].lineNumbers = lineNumbers]
    /\ Goto(p, "LAN_Unlock")
    /\ UNCHANGED <<LinesToKeep, lines, lineNumbers, linesSeen, rng, l, shouldquit,
                   globalm, gcond, sigs, haddr, stdin, nread, rd, stdout, released,
                   req, w, atStop>>

\* Line 79: c.l.Unlock().
LAN_Unlock(p) ==
    /\ pc[p] = "LAN_Unlock"
    /\ Running
    /\ l' = NoOne
    /\ Goto(p, "LAN_Sort")
    /\ UNCHANGED <<LinesToKeep, lines, lineNumbers, linesSeen, rng, shouldquit,
                   globalm, gcond, sigs, haddr, stdin, nread, rd, snap, stdout, released,
                   req, w, atStop>>

\* The sorter shares the store's slices instead of copying them: the sort
\* reorders the store.
LAN_Sort_InPlace(p) ==
    /\ pc[p] = "LAN_Sort"
    /\ Running
    /\ LET sorted == SortSorter([lines |-> snap[p].lines,
                                 lineNumbers |-> snap[p].lineNumbers])
       IN  /\ snap' = [snap EXCEPT ![p].lines = sorted.lines,
                                   ![p].lineNumbers = sorted.lineNumbers]
           /\ lines' = sorted.lines
           /\ lineNumbers' = sorted.lineNumbers
    /\ Goto(p, IF p = "main" THEN "print" ELSE "Seen")
    /\ UNCHANGED <<LinesToKeep, linesSeen, rng, l, shouldquit,
                   globalm, gcond, sigs, haddr, stdin, nread, rd, stdout, released,
                   req, w, atStop>>

\* Lines 80-81: sort.Sort(&s) on the private copy, and return to the caller:
\* ServeHTTP goes on to Seen() (line 176), main to its print loop (line 250).
LAN_Sort(p) ==
    /\ pc[p] = "LAN_Sort"
    /\ Running
    /\ LET sorted == SortSorter([lines |-> snap[p].lines,
                                 lineNumbers |-> snap[p].lineNumbers])
       IN  snap' = [snap EXCEPT ![p].lines = sorted.lines,
                                ![p].lineNumbers = sorted.lineNumbers]
    /\ Goto(p, IF p = "main" THEN "print" ELSE "Seen")
    /\ UNCHANGED <<LinesToKeep, lines, lineNumbers, linesSeen, rng, l, shouldquit,
                   globalm, gcond, sigs, haddr, stdin, nread, rd, stdout, released,
                   req, w, atStop>>

LinesAndNumbers(p) ==
    \/ LAN_Lock(p)
    \/ LAN_75(p)
    \/ LAN_77(p)
    \/ LAN_Unlock(p)
    \/ LAN_Sort(p)

\* ------------------------------------------- form values and responses

\* Form values a request may carry for t and for p, character by character:
\* the seven entries of falseish, another casing of "false", and two values
\* that are no false token.
ParamValues ==
    { << >>,
      <<"f">>,
      <<"F">>,
      <<"F", "a", "l", "s", "e">>,
      <<"F", "A", "L", "S", "E">>,
      <<"f", "a", "l", "s", "e">>,
      <<"0">>,
      <<"f", "A", "L", "S", "E">>,
      <<"1">>,
      <<"t", "r", "u", "e">> }

\* Line 150.
falseish ==
    << << >>,
       <<"f">>,
       <<"F">>,
       <<"F", "a", "l", "s", "e">>,
       <<"F", "A", "L", "S", "E">>,
       <<"f", "a", "l", "s", "e">>,
       <<"0">> >>

\* Lines 152-159: false when s equals an entry of falseish, else true.
boolish(s) == ~ \E i \in 1..Len(falseish) : falseish[i] = s

RECURSIVE JoinComma(_)
JoinComma(items) ==
    IF items = << >> THEN ""
    ELSE IF Len(items) = 1 THEN items[1]
    ELSE items[1] \o "," \o JoinComma(Tail(items))

\* Response with the two tests of lines 177 and 181 in the other order.
Response_TextFirst(textmode, plainmode, out) ==
    IF textmode
    THEN [status |-> 200, contentType |-> "",
          body |-> [i \in 1..Len(out.lineNumbers) |->
                       ToString(out.lineNumbers[i]) \o "\t" \o out.lines[i] \o "\n"]]
    ELSE IF plainmode
         THEN [status |-> 200, contentType |-> "",
               body |-> [i \in 1..Len(out.lines) |-> out.lines[i] \o "\n"]]
         ELSE [status |-> 200, contentType |-> "application/json",
               body |-> <<"{\"lines\":["
                   \o JoinComma([i \in 1..Len(out.lines) |-> "\"" \o out.lines[i] \o "\""])
                   \o "],\"lineNumbers\":["
                   \o JoinComma([i \in 1..Len(out.lineNumbers) |-> ToString(out.lineNumbers[i])])
                   \o "],\"seen\":" \o ToString(out.seen) \o "}">>]

\* fmt.Fprintf(w, "%s\n", line).
PlainRow(line) == line \o "\n"

\* fmt.Fprintf(w, "%d\t%s\n", ln, line).
TextRow(ln, line) == ToString(ln) \o "\t" \o line \o "\n"

\* json.Marshal(out) of a LineNoResponse whose lines need no escaping.
JSONBlob(out) ==
    "{\"lines\":["
        \o JoinComma([i \in 1..Len(out.lines) |-> "\"" \o out.lines[i] \o "\""])
        \o "],\"lineNumbers\":["
        \o JoinComma([i \in 1..Len(out.lineNumbers) |-> ToString(out.lineNumbers[i])])
        \o "],\"seen\":" \o ToString(out.seen) \o "}"

\* Lines 177-196: what the handler writes for out; every Fprintf and the
\* Write of the blob is one write.  status 200 is the implicit status; the
\* Content-Type is the one the handler sets itself.
Response(textmode, plainmode, out) ==
    IF plainmode
    THEN [status |-> 200, contentType |-> "",
          body |-> [i \in 1..Len(out.lines) |-> PlainRow(out.lines[i])]]
    ELSE IF textmode
         THEN [status |-> 200, contentType |-> "",
               body |-> [i \in 1..Len(out.lineNumbers) |->
                            TextRow(out.lineNumbers[i], out.lines[i])]]
         ELSE [status |-> 200, contentType |-> "application/json",
               body |-> <<JSONBlob(out)>>]

\* ------------------------------------------------- ssampleServer.ServeHTTP

\* Lines 171-175: a request arrives with its form values req[h]; textmode
\* and plainmode are boolish of t and of p; then LinesAndNumbers is called.
ServeHTTP_Begin(h) ==
    /\ pc[h] = "idle"
    /\ Running
    /\ req' = [req EXCEPT ![h].textmode = boolish(req[h].t),
                          ![h].plainmode = boolish(req[h].p)]
    /\ Goto(h, "LAN_Lock")
    /\ UNCHANGED <<LinesToKeep, lines, lineNumbers, linesSeen, rng, l, shouldquit,
                   globalm, gcond, sigs, haddr, stdin, nread, rd, snap, stdout, released,
                   w, atStop>>

\* Line 176: out.LinesSeen = s.c.Seen().  Seen (lines 56-60) locks c.l, reads
\* c.linesSeen and unlocks: one read inside its own critical section.
ServeHTTP_Seen(h) ==
    /\ pc[h] = "Seen"
    /\ Running
    /\ MutexFree(l)
    /\ snap' = [snap EXCEPT ![h].seen = linesSeen]
    /\ Goto(h, "render")
    /\ UNCHANGED <<LinesToKeep, lines, lineNumbers, linesSeen, rng, l, shouldquit,
                   globalm, gcond, sigs, haddr, stdin, nread, rd, stdout, released,
                   req, w, atStop>>

\* Lines 177-196: the response is written to w from out, in the format
\* plainmode and textmode select.
ServeHTTP_Render(h) ==
    /\ pc[h] = "render"
    /\ Running
    /\ w' = [w EXCEPT ![h] = Response(req[h].textmode, req[h].plainmode, snap[h])]
    /\ Goto(h, "returned")
    /\ UNCHANGED <<LinesToKeep, lines, lineNumbers, linesSeen, rng, l, shouldquit,
                   globalm, gcond, sigs, haddr, stdin, nread, rd, snap, stdout, released,
                   req, atStop>>

\* Line 197: the handler returns; its locals and its ResponseWriter are gone
\* and the goroutine is free for the next request.
ServeHTTP_Return(h) ==
    /\ pc[h] = "returned"
    /\ Running
    /\ snap' = [snap EXCEPT ![h] = NoSnap]
    /\ req' = [req EXCEPT ![h].textmode = FALSE, ![h].plainmode = FALSE]
    /\ w' = [w EXCEPT ![h] = NoResponse]
    /\ Goto(h, "idle")
    /\ UNCHANGED <<LinesToKeep, lines, lineNumbers, linesSeen, rng, l, shouldquit,
                   globalm, gcond, sigs, haddr, stdin, nread, rd, stdout, released,
                   atStop>>

ServeHTTP(h) ==
    \/ ServeHTTP_Begin(h)
    \/ LinesAndNumbers(h)
    \/ ServeHTTP_Seen(h)
    \/ ServeHTTP_Render(h)
    \/ ServeHTTP_Return(h)

\* -------------------------------------------------------------------- main

\* Line 236: go gogently(sigs).
main_go_gogently ==
    /\ pc["main"] = "go_gogently"
    /\ pc' = [pc EXCEPT !["main"] = "go_reader", !["gogently"] = "Recv"]
    /\ UNCHANGED <<LinesToKeep, lines, lineNumbers, linesSeen, rng, l, shouldquit,
                   globalm, gcond, sigs, haddr, stdin, nread, rd, snap, stdout, released,
                   req, w, atStop>>

\* Line 237: go reader(&c, teef, echo).
main_go_reader ==
    /\ pc["main"] = "go_reader"
    /\ pc' = [pc EXCEPT !["main"] = "go_http", !["reader"] = "Scan"]
    /\ UNCHANGED <<LinesToKeep, lines, lineNumbers, linesSeen, rng, l, shouldquit,
                   globalm, gcond, sigs, haddr, stdin, nread, rd, snap, stdout, released,
                   req, w, atStop>>

\* Lines 238-245: with -http, go hs.ListenAndServe(): requests are served
\* from now on.
main_go_http ==
    /\ pc["main"] = "go_http"
    /\ pc' = [q \in Procs |->
                IF q = "main" THEN "Lock"
                ELSE IF q \in Handlers /\ haddr THEN "idle"
                ELSE pc[q]]
    /\ UNCHANGED <<LinesToKeep, lines, lineNumbers, linesSeen, rng, l, shouldquit,
                   globalm, gcond, sigs, haddr, stdin, nread, rd, snap, stdout, released,
                   req, w, atStop>>

\* Line 246: globalm.Lock().
main_Lock ==
    /\ pc["main"] = "Lock"
    /\ MutexFree(globalm)
    /\ globalm' = "main"
    /\ Goto("main", "Wait")
    /\ UNCHANGED <<LinesToKeep, lines, lineNumbers, linesSeen, rng, l, shouldquit,
                   gcond, sigs, haddr, stdin, nread, rd, snap, stdout, released,
                   req, w, atStop>>

\* A Wait that returns without having been released by a Broadcast.
main_Wait_Returns ==
    /\ pc["main"] = "Wait"
    /\ gcond' = gcond
    /\ globalm' = NoOne
    /\ Goto("main", "Wait_relock")
    /\ UNCHANGED <<LinesToKeep, lines, lineNumbers, linesSeen, rng, l, shouldquit,
                   sigs, haddr, stdin, nread, rd, snap, stdout, released,
                   req, w, atStop>>

\* Line 247, gcond.Wait(): main joins the notify list and releases globalm;
\* it stays blocked until a Broadcast that comes after this step.
main_Wait ==
    /\ pc["main"] = "Wait"
    /\ gcond' = gcond \cup {"main"}
    /\ globalm' = NoOne
    /\ Goto("main", "Wait_blocked")
    /\ UNCHANGED <<LinesToKeep, lines, lineNumbers, linesSeen, rng, l, shouldquit,
                   sigs, haddr, stdin, nread, rd, snap, stdout, released,
                   req, w, atStop>>

\* Line 247, gcond.Wait() returning: once released, main re-acquires globalm.
main_Wait_relock ==
    /\ pc["main"] = "Wait_relock"
    /\ MutexFree(globalm)
    /\ globalm' = "main"
    /\ Goto("main", "Unlock")
    /\ UNCHANGED <<LinesToKeep, lines, lineNumbers, linesSeen, rng, l, shouldquit,
                   gcond, sigs, haddr, stdin, nread, rd, snap, stdout, released,
                   req, w, atStop>>

\* Lines 248-249: globalm.Unlock(), then the call of c.LinesAndNumbers().
main_Unlock ==
    /\ pc["main"] = "Unlock"
    /\ globalm' = NoOne
    /\ Goto("main", "LAN_Lock")
    /\ UNCHANGED <<LinesToKeep, lines, lineNumbers, linesSeen, rng, l, shouldquit,
                   gcond, sigs, haddr, stdin, nread, rd, snap, stdout, released,
                   req, w, atStop>>

\* Lines 250-253: the final emission, one "<lineNumber>\t<line>" per entry,
\* and main returns.
main_print ==
    /\ pc["main"] = "print"
    /\ stdout' = Append(stdout, [i \in 1..Len(snap["main"].lineNumbers) |->
                                    <<snap["main"].lineNumbers[i], snap["main"].lines[i]>>])
    /\ Goto("main", "done")
    /\ UNCHANGED <<LinesToKeep, lines, lineNumbers, linesSeen, rng, l, shouldquit,
                   globalm, gcond, sigs, haddr, stdin, nread, rd, snap, released,
                   req, w, atStop>>

main ==
    \/ main_go_gogently
    \/ main_go_reader
    \/ main_go_http
    \/ main_Lock
    \/ main_Wait
    \/ main_Wait_relock
    \/ main_Unlock
    \/ LinesAndNumbers("main")
    \/ main_print

\* --------------------------------------------------------- specification

Next ==
    \/ main
    \/ reader
    \/ gogently
    \/ Interrupt
    \/ \E h \in Handlers : ServeHTTP(h)

Spec == Init /\ [][Next]_vars

\* ------------------------------------------------- AddLine as a function

\* Collector.AddLine as one call: the fields after AddLine(line) on the
\* Collector c of capacity K, when rng.Float64() gives rf / RDen and
\* rng.Intn(len(c.lines)) gives evict.
AddLineCall(c, K, line, rf, evict) ==
    IF HasRoom(Len(c.lines), K)
    THEN [lines       |-> Append(c.lines, line),
          lineNumbers |-> Append(c.lineNumbers, c.linesSeen),
          linesSeen   |-> c.linesSeen + 1]
    ELSE IF KeepDecision(rf, K, c.linesSeen)
         THEN [lines       |-> [c.lines EXCEPT ![evict + 1] = line],
               lineNumbers |-> [c.lineNumbers EXCEPT ![evict + 1] = c.linesSeen],
               linesSeen   |-> c.linesSeen + 1]
         ELSE [c EXCEPT !.linesSeen = c.linesSeen + 1]

NewCollector == [lines |-> << >>, lineNumbers |-> << >>, linesSeen |-> 0]

\* The Collectors n calls of AddLine can make of the first n lines of in.
RECURSIVE CollectorsAfter(_, _, _)
CollectorsAfter(n, K, in) ==
    IF n = 0
    THEN {NewCollector}
    ELSE {AddLineCall(c, K, in[n], rf, evict) :
            c \in CollectorsAfter(n - 1, K, in),
            rf \in 0..(RDen - 1),
            evict \in 0..(K - 1)}

\* -------------------------------------------------- chances of AddLine

\* Chances are fractions <<numerator, denominator>>.
Times(x, y) == <<x[1] * y[1], x[2] * y[2]>>

\* Lines 44-45: the chance that keep is true on a full store, rf being
\* uniform over [0, 1): the threshold (LinesToKeep-1)/linesSeen, which is
\* below 1 because a full store has linesSeen >= LinesToKeep.
KeepChance(K, seen) == <<K - 1, seen>>

\* Lines 46-49: the chance that an entry of the full store is still there
\* after the call: the call rejects, or it evicts one of the other K - 1
\* slots, evict being uniform over 0..K-1.
StayChance(K, seen) == <<K * seen - (K - 1), K * seen>>

\* The chance that the record of index i is in the store after n calls of
\* AddLine on a Collector of capacity K.
RECURSIVE PresentChance(_, _, _)
PresentChance(i, n, K) ==
    IF n <= K THEN <<1, 1>>
    ELSE IF i = n - 1 THEN KeepChance(K, n - 1)
    ELSE Times(PresentChance(i, n - 1, K), StayChance(K, n - 1))

\* ------------------------------------------------------ one pull request

\* The handler that serves the request followed in detail.
Server == "h1"

\* A server between two lines of stdin: main waits in gcond.Wait(), the
\* reader is blocked in Scan with nread lines added, and the requests Server
\* handles carry the form values t and p.
ServeInit ==
    /\ LinesToKeep \in 1..MaxKeep
    /\ stdin \in Inputs
    /\ nread \in 0..Len(stdin)
    /\ \E c \in CollectorsAfter(nread, LinesToKeep, stdin) :
          /\ lines = c.lines
          /\ lineNumbers = c.lineNumbers
          /\ linesSeen = c.linesSeen
    /\ rng = (nread > 0)
    /\ l = NoOne
    /\ shouldquit = 0
    /\ globalm = NoOne
    /\ gcond = {"main"}
    /\ sigs = 0
    /\ haddr = TRUE
    /\ pc = [p \in Procs |-> CASE p = "main"     -> "Wait_blocked"
                               [] p = "reader"   -> "Scan"
                               [] p = "gogently" -> "Recv"
                               [] OTHER          -> "idle"]
    /\ rd = NoLocals
    /\ snap = [p \in Snapshotters |-> NoSnap]
    /\ stdout = << >>
    /\ released = 0
    /\ \E t \in ParamValues, p \in ParamValues :
          req = [h \in Handlers |->
                    IF h = Server
                    THEN [t |-> t, p |-> p, textmode |-> FALSE, plainmode |-> FALSE]
                    ELSE NoRequest]
    /\ w = [h \in Handlers |-> NoResponse]
    /\ atStop = NoStop

ServeNext == ServeHTTP(Server)

ServeSpec == ServeInit /\ [][ServeNext]_vars

\* ----------------------------------------------------------- vocabulary

\* The reader is between AddLine's Lock and Unlock.
InAddLine == l = "reader"

\* p holds a complete private copy (both slices copied).
HasCopy(p) == pc[p] \in {"LAN_Unlock", "LAN_Sort", "Seen", "render", "returned", "print"}

\* LinesAndNumbers has returned to p.
HasSnapshot(p) == pc[p] \in {"Seen", "render", "returned", "print"}

\* A handler's response (out.Lines, out.LineNumbers, out.LinesSeen) is complete.
HasResponse(h) == pc[h] \in {"render", "returned"}

\* stdin is exhausted (or failed), or the reader saw the stop flag.
ReaderStopped == pc["reader"] \in {"defer_Broadcast", "done"}

\* The interrupt was delivered to gogently.
Interrupted == pc["gogently"] \in {"Store", "Broadcast", "done"}

\* The RUNNING -> STOPPED transition has happened.
Triggered == ReaderStopped \/ Interrupted

\* main is past gcond.Wait().
MainReleased == pc["main"] \in {"Wait_relock", "Unlock", "LAN_Lock", "LAN_75", "LAN_77",
                                "LAN_Unlock", "LAN_Sort", "print", "done"}

\* -------------------------------------------------------------------- C1

\* C1: in every response of ServeHTTP the reported seen is linesSeen as it was
\* when the entries were copied, so that len(lines) = min(seen, capacity)
\* inside the response.
C1_ResponseIsOneInstant ==
    \A h \in Handlers :
        HasResponse(h) =>
            /\ snap[h].seen = snap[h].copiedAt
            /\ Len(snap[h].lines) = Min(snap[h].seen, LinesToKeep)

\* -------------------------------------------------------------------- C2

\* C2: once a trigger has occurred main is eventually released from
\* gcond.Wait().  Only a Broadcast releases it, and the reader and gogently
\* broadcast once each, so main must never be left unreleased with both
\* Broadcasts already made: from such a state it waits forever.
C2_ReleaseStillPossible ==
    (Triggered /\ ~MainReleased) =>
        (pc["reader"] # "done" \/ pc["gogently"] # "done")

\* -------------------------------------------------------------------- C3

\* C3: capacity bound.  len(lines) <= LinesToKeep in every state, and at every
\* observation point (AddLine not in progress) len(lines) = min(linesSeen,
\* LinesToKeep), with lineNumbers of the same length.
C3_CapacityBound ==
    /\ Len(lines) <= LinesToKeep
    /\ Len(lineNumbers) <= LinesToKeep
    /\ ~InAddLine =>
          /\ Len(lines) = Min(linesSeen, LinesToKeep)
          /\ Len(lineNumbers) = Len(lines)

\* The store is full, more records than its capacity have been seen and one
\* of them replaced an entry.
C3_Witness ==
    /\ ~InAddLine
    /\ Len(lines) = LinesToKeep
    /\ linesSeen > LinesToKeep
    /\ \E i \in 1..Len(lineNumbers) : lineNumbers[i] >= LinesToKeep

\* -------------------------------------------------------------------- C5

\* The reference admission rule: keep iff r < capacity / (seen + 1).
AlgorithmR(r, K, seen) == r * (seen + 1) < K * RDen

\* C5: when the store is full the keep decision of AddLine equals the
\* reference rule r < capacity / (seen + 1), seen taken before the increment.
C5_AdmissionRule ==
    [][(pc["reader"] = "AddLine_45" /\ pc'["reader"] = "AddLine_46") =>
          (rd'.keep <=> AlgorithmR(rd.rf, LinesToKeep, linesSeen))]_vars

\* -------------------------------------------------------------------- C4

\* The entries of a sorter: its (content, sequence_index) pairs.
Entries(s) ==
    {<<s.lines[i], s.lineNumbers[i]>> : i \in 1..Min(Len(s.lines), Len(s.lineNumbers))}

\* The entry is a record of the stream with the index it arrived at.
Arrived(e) == e[2] \in 0..(nread - 1) /\ e[1] = stdin[e[2] + 1]

\* C4: no torn entries.  Under every interleaving of AddLine and of several
\* LinesAndNumbers at once, every (content, sequence_index) pair of every
\* private copy and snapshot is a record with the index it arrived at.
C4_NoTornEntries ==
    \A p \in Snapshotters :
        HasCopy(p) =>
            /\ Len(snap[p].lines) = Len(snap[p].lineNumbers)
            /\ \A e \in Entries(snap[p]) : Arrived(e)

\* Two handlers hold copies at once, taken at different moments, one of them
\* with an entry that replaced another.
C4_Witness ==
    /\ HasCopy("h1") /\ HasCopy("h2")
    /\ Entries(snap["h1"]) # Entries(snap["h2"])
    /\ \E e \in Entries(snap["h1"]) : e[2] >= LinesToKeep

\* -------------------------------------------------------------------- C6

\* C6: index fidelity.  Every entry of every response has an index in
\* 0..seen-1 for the seen reported with it, every entry of the final snapshot
\* an index below the linesSeen it was copied at, and at every observation
\* point every index in the store is in 0..linesSeen-1.
C6_IndexFidelity ==
    /\ \A h \in Handlers :
          HasResponse(h) =>
              \A i \in 1..Len(snap[h].lineNumbers) :
                  snap[h].lineNumbers[i] >= 0 /\ snap[h].lineNumbers[i] < snap[h].seen
    /\ pc["main"] = "print" =>
          \A i \in 1..Len(snap["main"].lineNumbers) :
              snap["main"].lineNumbers[i] >= 0
              /\ snap["main"].lineNumbers[i] < snap["main"].copiedAt
    /\ ~InAddLine =>
          \A i \in 1..Len(lineNumbers) :
              lineNumbers[i] >= 0 /\ lineNumbers[i] < linesSeen

\* A response that holds the latest record (index seen-1), which replaced an
\* entry of a full store.
C6_Witness ==
    \E h \in Handlers :
        /\ HasResponse(h)
        /\ snap[h].seen > LinesToKeep
        /\ \E i \in 1..Len(snap[h].lineNumbers) :
              snap[h].lineNumbers[i] = snap[h].seen - 1

\* -------------------------------------------------------------------- C7

NoDuplicates(seq) ==
    \A i, j \in 1..Len(seq) : i # j => seq[i] # seq[j]

\* C7: no two entries of the store, or of a snapshot, have the same
\* sequence_index, and at every observation point every entry of the store is
\* the record that arrived at its index.
C7_UniqueIndex ==
    /\ NoDuplicates(lineNumbers)
    /\ \A p \in Snapshotters : HasCopy(p) => NoDuplicates(snap[p].lineNumbers)
    /\ ~InAddLine =>
          \A e \in Entries([lines |-> lines, lineNumbers |-> lineNumbers]) : Arrived(e)

\* After a replacement the store holds a later record in an earlier slot.
C7_Witness ==
    /\ ~InAddLine
    /\ Len(lineNumbers) >= 2
    /\ lineNumbers[1] > lineNumbers[2]
    /\ lineNumbers[1] >= LinesToKeep

\* -------------------------------------------------------------------- C8

Ascending(seq) == \A i \in 1..(Len(seq) - 1) : seq[i] < seq[i + 1]

\* C8: snapshot ordering.  What LinesAndNumbers copies under the lock is the
\* store as it is; sort.Sort keeps the number of entries and the
\* (line, lineNumber) pairs; and what LinesAndNumbers returns has its
\* lineNumbers strictly ascending.
C8_SnapshotOrdering ==
    /\ [](\A p \in Snapshotters :
            /\ pc[p] = "LAN_Unlock" =>
                  snap[p].lines = lines /\ snap[p].lineNumbers = lineNumbers
            /\ HasSnapshot(p) => Ascending(snap[p].lineNumbers))
    /\ [][\A p \in Snapshotters :
            (pc[p] = "LAN_Sort" /\ pc'[p] # "LAN_Sort") =>
                /\ Len(snap'[p].lines) = Len(snap[p].lines)
                /\ Len(snap'[p].lineNumbers) = Len(snap[p].lineNumbers)
                /\ Entries(snap'[p]) = Entries(snap[p])]_vars

\* A snapshot, sorted, of a store whose slots are not in ascending order and
\* which has not changed since it was copied.
C8_Witness ==
    \E p \in Snapshotters :
        /\ HasSnapshot(p)
        /\ ~InAddLine
        /\ snap[p].copiedAt = linesSeen
        /\ ~Ascending(lineNumbers)
        /\ Entries(snap[p]) = Entries([lines |-> lines, lineNumbers |-> lineNumbers])

\* -------------------------------------------------------------------- C9

\* C9: idempotent reads.  Two snapshots copied with no AddLine between them
\* (linesSeen counts the AddLine calls) hold the same entries; two responses
\* completed with no AddLine since either copy report the same seen; and no
\* step of ServeHTTP or of main's LinesAndNumbers changes lines, lineNumbers
\* or linesSeen.
C9_IdempotentReads ==
    /\ [](\A p, q \in Snapshotters :
            /\ (HasSnapshot(p) /\ HasSnapshot(q) /\ snap[p].copiedAt = snap[q].copiedAt) =>
                  /\ snap[p].lines = snap[q].lines
                  /\ snap[p].lineNumbers = snap[q].lineNumbers
            /\ (/\ HasResponse(p) /\ HasResponse(q)
                /\ snap[p].copiedAt = linesSeen
                /\ snap[q].copiedAt = linesSeen) => snap[p].seen = snap[q].seen)
    /\ [][((\E h \in Handlers : ServeHTTP(h)) \/ LinesAndNumbers("main")) =>
            UNCHANGED <<lines, lineNumbers, linesSeen>>]_vars

\* Two complete responses taken with no AddLine in between, of a store that
\* is full, has seen a replacement, and keeps its slots out of order.
C9_Witness ==
    /\ HasResponse("h1") /\ HasResponse("h2")
    /\ snap["h1"].copiedAt = linesSeen
    /\ snap["h2"].copiedAt = linesSeen
    /\ linesSeen > LinesToKeep
    /\ ~Ascending(lineNumbers)

\* ------------------------------------------------------------------- C10

\* C10: main takes its final snapshot only after a trigger (stdin exhausted,
\* or an interrupt), is released at most once, and emits exactly once: when
\* both triggers fire, the second Broadcast releases nobody.
C10_OneFinalEmission ==
    /\ MainReleased => Triggered
    /\ released <= 1
    /\ MainReleased => released = 1
    /\ Len(stdout) <= 1
    /\ pc["main"] = "done" <=> Len(stdout) = 1
    /\ gcond \subseteq {"main"}
    /\ "main" \in gcond <=> pc["main"] = "Wait_blocked"

\* Both triggers fired, both Broadcasts were made, and main emitted once.
C10_Witness ==
    /\ pc["reader"] = "done"
    /\ pc["gogently"] = "done"
    /\ pc["main"] = "done"
    /\ nread > 0 /\ linesSeen = nread
    /\ Len(stdout) = 1

\* The reader has loaded shouldquit # 0 and returned from its loop: the line
\* Scan gave it last was dropped, so one line more was read than was added.
ObservedStop == ReaderStopped /\ shouldquit # 0 /\ linesSeen = nread - 1

\* The final emission: the (lineNumber, line) pairs main printed.
Emitted == IF stdout = << >> THEN {} ELSE {stdout[1][i] : i \in 1..Len(stdout[1])}

\* C11: interrupt before the stream is exhausted.  The reader never calls
\* AddLine after it has loaded shouldquit # 0: that load sends it to its
\* deferred Broadcast, and from then on the store and linesSeen never change
\* and nobody is inside AddLine.  So every record of the final emission was
\* added before the reader observed the flag: it is a record of the stream
\* that arrived before the line the reader dropped.
C11_NothingAdmittedAfterObservedStop ==
    /\ [][(pc["reader"] = "LoadQuit" /\ shouldquit # 0 /\ pc'["reader"] # "LoadQuit")
             => (pc'["reader"] = "defer_Broadcast" /\ ObservedStop')]_vars
    /\ [][ObservedStop
             => /\ ObservedStop'
                /\ ~InAddLine'
                /\ UNCHANGED <<lines, lineNumbers, linesSeen, nread>>]_vars
    /\ []((pc["main"] = "done" /\ ObservedStop)
             => \A e \in Emitted : e[1] < nread - 1 /\ e[2] = stdin[e[1] + 1])

\* The reader added a line, dropped the next one on seeing the flag, and main
\* printed what was added.
C11_Witness ==
    /\ pc["main"] = "done"
    /\ ObservedStop
    /\ linesSeen >= 1
    /\ Emitted # {}

UpperCase == <<"A", "B", "C", "D", "E", "F", "G", "H", "I", "J", "K", "L", "M",
               "N", "O", "P", "Q", "R", "S", "T", "U", "V", "W", "X", "Y", "Z">>
LowerCase == <<"a", "b", "c", "d", "e", "f", "g", "h", "i", "j", "k", "l", "m",
               "n", "o", "p", "q", "r", "s", "t", "u", "v", "w", "x", "y", "z">>

\* The value with every upper-case letter replaced by its lower-case letter.
ToLower(v) ==
    [i \in 1..Len(v) |->
        IF \E k \in 1..Len(UpperCase) : UpperCase[k] = v[i]
        THEN LowerCase[CHOOSE k \in 1..Len(UpperCase) : UpperCase[k] = v[i]]
        ELSE v[i]]

\* The value is empty or is "false", "f" or "0" in some casing.
FalseToken(v) ==
    \/ v = << >>
    \/ ToLower(v) \in {<<"f", "a", "l", "s", "e">>, <<"f">>, <<"0">>}

\* ServeHTTP has evaluated boolish on both form values of the request.
Parsed == pc[Server] # "idle"

\* C12: truthy parsing.  For every form value v, boolish(v) is false exactly
\* when v is empty or equals "false", "f" or "0" under case-insensitive
\* comparison, and true for every other value: textmode and plainmode are the
\* negations of FalseToken of t and of p.
C12_TruthyParsing ==
    Parsed => /\ req[Server].textmode = ~FalseToken(req[Server].t)
              /\ req[Server].plainmode = ~FalseToken(req[Server].p)

\* The handler has written its response and returned.
Served == pc[Server] = "returned"

\* The body is one "<lineNumber>TAB<content>" line per entry of out.
IsText(out, body) ==
    /\ Len(body) = Len(out.lineNumbers)
    /\ \A i \in 1..Len(body) :
          body[i] = ToString(out.lineNumbers[i]) \o "\t" \o out.lines[i] \o "\n"

\* The body is one "<content>" line per entry of out.
IsPlain(out, body) ==
    /\ Len(body) = Len(out.lines)
    /\ \A i \in 1..Len(body) : body[i] = out.lines[i] \o "\n"

\* The body is the JSON object {lines, lineNumbers, seen} of out.
IsJSON(out, resp) ==
    /\ resp.contentType = "application/json"
    /\ resp.body = <<JSONBlob(out)>>

\* The entries served are the store's, in ascending sequence-index order.
ServedInOrder(out) ==
    /\ Ascending(out.lineNumbers)
    /\ Len(out.lines) = Len(out.lineNumbers)
    /\ Entries(out) = Entries([lines |-> lines, lineNumbers |-> lineNumbers])
    /\ out.seen = linesSeen

\* C13 as stated: the format follows from the parameters, with t and p
\* truthy as boolish decides: JSON when neither is truthy, the text format
\* whenever t is truthy, the plain format whenever p is truthy, the entries
\* in ascending sequence-index order.
C13_FormatByParameters ==
    Served =>
        /\ w[Server].status = 200
        /\ ServedInOrder(snap[Server])
        /\ (~boolish(req[Server].t) /\ ~boolish(req[Server].p)) => IsJSON(snap[Server], w[Server])
        /\ boolish(req[Server].t) => IsText(snap[Server], w[Server].body)
        /\ boolish(req[Server].p) => IsPlain(snap[Server], w[Server].body)

\* C13 amended: JSON when neither t nor p is truthy, the plain format
\* whenever p is truthy, and the text format when t is truthy and p is not;
\* the entries in ascending sequence-index order.
C13_FormatByParametersPlainFirst ==
    Served =>
        /\ w[Server].status = 200
        /\ ServedInOrder(snap[Server])
        /\ (~boolish(req[Server].t) /\ ~boolish(req[Server].p)) => IsJSON(snap[Server], w[Server])
        /\ (boolish(req[Server].t) /\ ~boolish(req[Server].p)) => IsText(snap[Server], w[Server].body)
        /\ boolish(req[Server].p) => IsPlain(snap[Server], w[Server].body)

\* A request with both t and p truthy, served from a store whose second slot
\* was replaced: two plain lines.
C13_Witness ==
    /\ Served
    /\ boolish(req[Server].t) /\ boolish(req[Server].p)
    /\ snap[Server].lineNumbers = <<0, 2>>
    /\ w[Server].body = <<"a\n", "c\n">>

\* C14: uniformity.  After N records went into a store of capacity K < N,
\* each record index i < N is in the store with probability K / N.
C14_Uniformity ==
    (~InAddLine /\ linesSeen > LinesToKeep) =>
        \A i \in 0..(linesSeen - 1) :
            PresentChance(i, linesSeen, LinesToKeep)[1] * linesSeen
                = LinesToKeep * PresentChance(i, linesSeen, LinesToKeep)[2]

\* gogently has stored shouldquit = 1.
Stopped == atStop # NoStop

\* C15: prompt stop.  Once gogently has stored shouldquit = 1, no line passes
\* the reader's flag check any more, so the reader adds at most the one line
\* whose check had already passed: in every interleaving linesSeen grows by
\* at most 1 and at most one more line is taken from stdin after the store.
C15_PromptStop ==
    /\ [](Stopped => /\ shouldquit = 1
                     /\ linesSeen <= atStop.seen + 1
                     /\ nread <= atStop.nread + 1)
    /\ [][shouldquit # 0
            => ~(pc["reader"] = "LoadQuit" /\ pc'["reader"] = "AddLine_Lock")]_vars

\* The flag was stored while the reader was adding a line: that line was
\* added, the next one was dropped, and stdin still holds unread lines.
C15_Witness ==
    /\ Stopped
    /\ linesSeen = atStop.seen + 1
    /\ ObservedStop
    /\ nread < Len(stdin)

\* The reader holds a line that was scanned and is not counted yet: it is
\* before the flag check, or inside AddLine before line 53.
LineInHand ==
    pc["reader"] \in {"LoadQuit", "AddLine_Lock", "AddLine_40", "AddLine_42",
                      "AddLine_45", "AddLine_46", "AddLine_48", "AddLine_49",
                      "AddLine_53"}

\* The reader is in its loop with every scanned line counted.
AllCounted == pc["reader"] \in {"Scan", "AddLine_Unlock"}

\* C16: every AddLine call increases linesSeen by exactly one, whether the
\* line was appended, put in place of another or rejected, and nothing else
\* changes linesSeen.  So linesSeen is the number of completed AddLine calls
\* (every scanned line once AddLine is at its unlock, all but the line in
\* hand before), it never decreases, and Seen() returns its current value:
\* the seen values one caller obtains one after the other never decrease.
C16_SeenCountsAddLineCalls ==
    /\ [][linesSeen' # linesSeen
            => /\ pc["reader"] = "AddLine_53"
               /\ pc'["reader"] = "AddLine_Unlock"
               /\ linesSeen' = linesSeen + 1]_vars
    /\ []((AllCounted => linesSeen = nread) /\ (LineInHand => linesSeen = nread - 1))
    /\ [][\A h \in Handlers :
            (pc[h] = "Seen" /\ pc'[h] = "render") => snap'[h].seen = linesSeen]_vars

\* Three calls of AddLine have returned on a store of two slots, the third
\* rejected: linesSeen is 3 and the store still holds the first two records.
C16_Witness ==
    /\ pc["reader"] = "AddLine_Unlock"
    /\ linesSeen = 3
    /\ lineNumbers = <<0, 1>>

\* The first n records of the stream, in arrival order.
FirstRecords(n) ==
    [lines |-> SubSeq(stdin, 1, n), lineNumbers |-> [i \in 1..n |-> i - 1]]

\* AddLine has drawn rf and decided not to keep the line.
Rejecting == pc["reader"] = "AddLine_46" /\ ~rd.keep

\* C17: growth phase and rejection.  While no more than K records have been
\* seen the store holds exactly the records 0..seen-1 in arrival order.  An
\* AddLine that rejects goes from its decision straight to linesSeen++ and
\* leaves lines and lineNumbers unchanged, so a store on which every draw
\* rejected (it holds no record of index K or more) still holds exactly the
\* first K records, in slots 0..K-1, however many lines were added.
C17_GrowthThenRejection ==
    /\ []((~InAddLine /\ linesSeen <= LinesToKeep)
            => /\ lines = FirstRecords(linesSeen).lines
               /\ lineNumbers = FirstRecords(linesSeen).lineNumbers)
    /\ [][(Rejecting \/ pc["reader"] \in {"AddLine_53", "AddLine_Unlock"})
            => /\ UNCHANGED <<lines, lineNumbers>>
               /\ Rejecting => pc'["reader"] \in {"AddLine_46", "AddLine_53"}]_vars
    /\ []((~InAddLine /\ linesSeen >= LinesToKeep
             /\ \A i \in 1..Len(lineNumbers) : lineNumbers[i] < LinesToKeep)
            => /\ lines = FirstRecords(LinesToKeep).lines
               /\ lineNumbers = FirstRecords(LinesToKeep).lineNumbers)

\* A store of two slots after three lines, the third of them rejected.
C17_Witness ==
    /\ pc["reader"] = "Scan"
    /\ LinesToKeep = 2
    /\ linesSeen = 3
    /\ lines = <<"a", "b">>
    /\ lineNumbers = <<0, 1>>

\* The sequences differ at position k at most, where after has the value v.
OnlySlotChanged(before, after, k, v) ==
    /\ Len(after) = Len(before)
    /\ after[k] = v
    /\ \A i \in 1..Len(before) : i # k => after[i] = before[i]

\* C18: replacement frame.  When the store is full and AddLine keeps the new
\* line, any of the K slots can be drawn as evict (while the process runs,
\* the step drawing it is enabled for every slot); line 48 changes the
\* content of that slot alone to the new line, line 49 changes the index of
\* the same slot alone to linesSeen as it was before the increment, both
\* inside one critical section, and every other slot keeps content and index.
C18_ReplacementFrame ==
    /\ []((pc["reader"] = "AddLine_46" /\ rd.keep /\ Running)
            => /\ Len(lines) = LinesToKeep
               /\ \A e \in 0..(LinesToKeep - 1) : ENABLED (AddLine_46 /\ rd'.evict = e))
    /\ [][(pc["reader"] = "AddLine_48" /\ pc'["reader"] # "AddLine_48")
            => /\ pc'["reader"] = "AddLine_49"
               /\ OnlySlotChanged(lines, lines', rd.evict + 1, stdin[nread])
               /\ UNCHANGED <<lineNumbers, linesSeen>>
               /\ rd'.evict = rd.evict]_vars
    /\ [][(pc["reader"] = "AddLine_49" /\ pc'["reader"] # "AddLine_49")
            => /\ pc'["reader"] = "AddLine_53"
               /\ OnlySlotChanged(lineNumbers, lineNumbers', rd.evict + 1, linesSeen)
               /\ lines[rd.evict + 1] = stdin[nread]
               /\ UNCHANGED <<lines, linesSeen>>]_vars
    /\ [](pc["reader"] \in {"AddLine_48", "AddLine_49"} => InAddLine)

\* The third line has replaced the record in the last of two slots and
\* linesSeen is not yet incremented.
C18_Witness ==
    /\ pc["reader"] = "AddLine_53"
    /\ LinesToKeep = 2
    /\ linesSeen = 2
    /\ lines = <<"a", "c">>
    /\ lineNumbers = <<0, 2>>

\* A line has arrived on a full store and AddLine is about to draw rf.
ArrivedOnFullStore ==
    /\ pc["reader"] = "AddLine_40"
    /\ ~HasRoom(Len(lines), LinesToKeep)
    /\ Running

\* C19: reachability.  For every capacity K >= 1, K = 1 included, no record
\* arriving after the store is full is excluded with certainty: whenever a
\* line arrives on a full store, some draw of rf makes AddLine keep it, so
\* that every record index can be present in the final reservoir.
C19_EveryRecordCanBeKept ==
    ArrivedOnFullStore
        => ENABLED (AddLine_40 /\ KeepDecision(rd'.rf, LinesToKeep, linesSeen))

\* No interrupt has taken effect: shouldquit was never stored, so gogently
\* has made no Broadcast.
NoInterrupt == shouldquit = 0

\* C20: release by stream exhaustion.  When main is past gcond.Wait() and no
\* interrupt has taken effect, the reader has finished: every line read was
\* added (linesSeen is the number of lines of the stream), nobody is inside
\* AddLine, and the store and linesSeen never change again.  The final
\* snapshot is copied from that store and the final emission is exactly its
\* entries: nothing admitted is missing.
C20_ExhaustionEmitsAll ==
    /\ []((MainReleased /\ NoInterrupt)
            => /\ pc["reader"] = "done"
               /\ ~InAddLine
               /\ linesSeen = nread)
    /\ [][(MainReleased /\ NoInterrupt)
            => UNCHANGED <<lines, lineNumbers, linesSeen, nread>>]_vars
    /\ []((pc["main"] \in {"print", "done"} /\ NoInterrupt)
            => /\ snap["main"].copiedAt = nread
               /\ Entries(snap["main"])
                    = Entries([lines |-> lines, lineNumbers |-> lineNumbers]))
    /\ []((pc["main"] = "done" /\ NoInterrupt)
            => Emitted = {<<lineNumbers[i], lines[i]>> : i \in 1..Len(lines)})

\* Three lines were read to the end of stdin without interrupt, the third
\* took a slot of the store, and main printed both entries.
C20_Witness ==
    /\ pc["main"] = "done"
    /\ NoInterrupt
    /\ nread = 3
    /\ linesSeen = 3
    /\ Emitted = {<<0, "a">>, <<2, "c">>}

====
